---------------------------- MODULE Spec2Model ----------------------------
(***************************************************************************)
(* Model of BeliX's in-process caching and rate-limiting layer:            *)
(*   utils/cache.js      CacheEntry, CacheManager                          *)
(*   utils/rateLimit.js  CommandCooldownManager, AntiSpamManager,          *)
(*                       LeaderboardFarmingPrevention, checkCommandRateLimit*)
(*   index.js            the interactionCreate handler, evaluateAnswer     *)
(*   repositories/pointsRepository.js  addPoints                           *)
(*   utils/logger.js     the handler of uncaught exceptions                *)
(*   services/analyticsService.js  getDashboardSummary                     *)
(* Every manager owns its own map; the only shared resource is the         *)
(* wall clock (Date.now()), modelled by the variable now (milliseconds).   *)
(* The node.js runtime is single-threaded: one action is one synchronous   *)
(* run-to-completion segment of a handler.  getOrSet is async and so is    *)
(* split at its await into a call segment and a continuation segment.      *)
(***************************************************************************)
EXTENDS Integers, Sequences, FiniteSets, TLC

VARIABLES
    now,            \* Date.now()
    store,          \* CacheManager.store: key -> CacheEntry (a Map)
    metrics,        \* CacheManager.metrics
    calls,          \* getOrSet invocations suspended at `await fetchFn()`
    cooldowns,      \* CommandCooldownManager.cooldowns: user -> cmd -> record
    messageHistory, \* AntiSpamManager.messageHistory: user -> timestamps
    last,           \* history: the step that ran last (an operation with its result, or a clock tick)
    lastSet,        \* history: per key, the last CacheManager.set on it not followed by delete or clear
    denied,         \* history: per (user, cmd), denied checks since the last allowed check or reset
    checks,         \* history: number of checkCooldown calls made
    spamLog,        \* history: per user, the results of the checkSpam calls of the first burst
    admitted,       \* history: per user, the instants of the admitted checkSpam calls since the last
                    \* clear, less those that were timeWindow old or older at a later admitted call
    lastFlag,       \* history: the users whose most recent checkSpam call was flagged
    gets,           \* history: number of CacheManager.get calls made (getOrSet's included)
    lastPointsUpdate, \* LeaderboardFarmingPrevention.lastPointsUpdate: user -> timestamp
    points,         \* the members table: user -> points
    pointHistory,   \* the point_history table: the rows in insertion order
    credits,        \* evaluateAnswer requests suspended at an await of addPoints
    botStatus,      \* index.js botStatus: the counters commandsExecuted and errors
    process,        \* the node.js process: running, or exiting after an uncaught exception
    summaries       \* history: when the dashboard summary of each days value was last built

vars == <<now, store, metrics, calls, cooldowns, messageHistory,
          last, lastSet, denied, checks, spamLog, admitted, lastFlag, gets,
          lastPointsUpdate, points, pointHistory, credits, botStatus, process,
          summaries>>

cacheVars == <<store, metrics, calls, lastSet, gets>>
cooldownVars == <<cooldowns, denied, checks>>
spamVars == <<messageHistory, spamLog, admitted, lastFlag>>
farmingVars == <<lastPointsUpdate, points, pointHistory, credits>>
commandVars == <<botStatus>>

-----------------------------------------------------------------------------
(* Bounds of the model *)

\* the cache specification stops the clock here (ms)
MaxCacheNow == 3
\* the analytics specification makes at most this many getDashboardSummary calls
MaxSummaryCalls == 3
\* the specification of the three limiters advances the clock at most this many times
MaxLimiterSteps == 3
\* the cache specification runs at most this many counted cache operations
MaxOps == 3
\* the cache specification with the everlasting timer makes calls below this count
MaxLiveOps == 2

\* the cooldown specification advances the clock at most this many times
MaxCooldownSteps == 3
\* the cooldown specification makes at most this many checkCooldown calls
MaxChecks == 3
\* the spam specification advances the clock at most this many times
MaxSpamSteps == 3
\* the longest burst of checkSpam calls the history records per user
MaxBurst == 6
\* the farming specification advances the clock at most this many times
MaxFarmingSteps == 3
\* the farming specification starts crediting requests while point_history has fewer rows
MaxCredits == 2
\* the command specification handles at most this many slash commands
MaxInteractions == 3

Keys == {"k1", "k2"}
Procs == {"p1", "p2"}
TTLs == {1, 2}

Users == {"u1", "u2"}
\* concurrent HTTP requests to evaluateAnswer
Requests == {"r1", "r2"}
Cmds == {"c1", "c2"}
\* the cooldownMs argument of checkCooldown (its default, and a shorter one)
CooldownMs == {3000, 5000}
\* clock steps of the cooldown and of the spam specification (ms)
CooldownTicks == {2500}
SpamTicks == {2500}
\* clock steps of the farming specification (ms): half the minimum interval, and 1 ms more
FarmingTicks == {15000, 15001}
\* slash commands: one with a configured cooldown and one without
CommandNames == {"leaderboard", "help"}
\* the scores aiService.evaluateAnswer produces
Scores == {60, 95}
\* the specification of the three limiters: the user whose calls are followed, the
\* command and the cooldownMs of the checkCooldown calls (the default), and clock steps (ms) longer than every cooldown and window and shorter than twice the
\* minimum interval between points updates
LimiterUsers == {"u1"}
LimiterCmds == {"c1"}
LimiterCooldownMs == {5000}
LimiterTicks == {20000}
MaxLimitersNow == MaxLimiterSteps * 20000
\* the days argument of getDashboardSummary (its default, and a week)
Days == {7, 30}
\* one hour in ms
OneHourMs == 60 * 60 * 1000
\* the instants the analytics specification looks at (ms): the ttl argument of
\* the summary after a build at 0, one ms later, one hour, one ms later
AnalyticsInstants == {60 * 60, 60 * 60 + 1, OneHourMs, OneHourMs + 1}
MaxAnalyticsNow == OneHourMs + 1
\* where the cooldown and the spam specification stop the clock (ms)
MaxCooldownNow == MaxCooldownSteps * 2500
MaxSpamNow == MaxSpamSteps * 2500
MaxFarmingNow == MaxFarmingSteps * 15001

\* JavaScript values a cache can hold: null, a falsy value that is not null, a plain value
JsNull == "null"
JsUndefined == "undefined"
Values == {JsNull, JsUndefined, "v1"}

-----------------------------------------------------------------------------
(* utils/cache.js : CacheEntry *)

\* variant: the ttl taken as seconds
CacheEntrySeconds(value, ttl, t) ==
    [value |-> value, createdAt |-> t, ttl |-> ttl * 1000, hits |-> 0, lastAccessed |-> t]

CacheEntry(value, ttl, t) ==
    [value |-> value, createdAt |-> t, ttl |-> ttl, hits |-> 0, lastAccessed |-> t]

\* variant: the age measured from the last access (a sliding expiry)
isExpiredSliding(entry, t) == t - entry.lastAccessed > entry.ttl

\* variant: the entry expires when its age reaches the ttl
isExpiredAtTtl(entry, t) == t - entry.createdAt >= entry.ttl

isExpired(entry, t) == t - entry.createdAt > entry.ttl

\* variant: a read renews the lifetime of the entry
recordHitRenews(entry, t) ==
    [entry EXCEPT !.hits = @ + 1, !.lastAccessed = t, !.createdAt = t]

recordHit(entry, t) == [entry EXCEPT !.hits = @ + 1, !.lastAccessed = t]

-----------------------------------------------------------------------------
(* utils/cache.js : CacheManager.  The operations are functions of the     *)
(* manager's state (s = store, m = metrics) and the clock reading t; they  *)
(* return the new state and the value returned to the caller.              *)

\* variant: the value is stored under every key of the map
MapSetAll(map, k, v) == [x \in (DOMAIN map) \cup {k} |-> v]

MapSet(map, k, v) == [x \in (DOMAIN map) \cup {k} |-> IF x = k THEN v ELSE map[x]]

MapDelete(map, k) == [x \in (DOMAIN map) \ {k} |-> map[x]]

EmptyMap == [x \in {} |-> 0]

\* variant: a set on an existing key keeps the lifetime and the hit count of its entry
setKeepsLifetime(s, m, key, value, ttl, t) ==
    [store |-> MapSet(s, key,
                      IF key \in DOMAIN s
                      THEN [s[key] EXCEPT !.value = value, !.ttl = ttl]
                      ELSE CacheEntry(value, ttl, t)),
     metrics |-> [m EXCEPT !.sets = @ + 1]]

CacheManager_set(s, m, key, value, ttl, t) ==
    [store |-> MapSet(s, key, CacheEntry(value, ttl, t)),
     metrics |-> [m EXCEPT !.sets = @ + 1]]

\* variant: an expired entry is dropped without counting a miss
getExpiredUncounted(s, m, key, t) ==
    IF key \notin DOMAIN s
    THEN [store |-> s, metrics |-> [m EXCEPT !.misses = @ + 1], ret |-> JsNull]
    ELSE IF isExpired(s[key], t)
    THEN [store |-> MapDelete(s, key), metrics |-> m, ret |-> JsNull]
    ELSE [store |-> MapSet(s, key, recordHit(s[key], t)),
          metrics |-> [m EXCEPT !.hits = @ + 1], ret |-> s[key].value]

CacheManager_get(s, m, key, t) ==
    IF key \notin DOMAIN s
    THEN [store |-> s, metrics |-> [m EXCEPT !.misses = @ + 1], ret |-> JsNull]
    ELSE IF isExpired(s[key], t)
    THEN [store |-> MapDelete(s, key),
          metrics |-> [m EXCEPT !.misses = @ + 1], ret |-> JsNull]
    ELSE [store |-> MapSet(s, key, recordHit(s[key], t)),
          metrics |-> [m EXCEPT !.hits = @ + 1], ret |-> s[key].value]

\* variant: every call counts as a deletion
deleteAlwaysCounted(s, m, key) ==
    [store |-> MapDelete(s, key),
     metrics |-> [m EXCEPT !.deletes = @ + 1],
     ret |-> key \in DOMAIN s]

CacheManager_delete(s, m, key) ==
    LET hadEntry == key \in DOMAIN s
    IN  [store |-> MapDelete(s, key),
         metrics |-> IF hadEntry THEN [m EXCEPT !.deletes = @ + 1] ELSE m,
         ret |-> hadEntry]

\* variant: the removed entries are counted as deletions
clearCountsDeletes(s, m) ==
    [store |-> EmptyMap, metrics |-> [m EXCEPT !.deletes = @ + Cardinality(DOMAIN s)]]

CacheManager_clear(s, m) == [store |-> EmptyMap, metrics |-> m]

\* variant: the sweep also removes the entries that are exactly ttl old
cleanupAtTtl(s, m, t) ==
    LET expired == {k \in DOMAIN s : t - s[k].createdAt >= s[k].ttl}
    IN  [store |-> [k \in (DOMAIN s) \ expired |-> s[k]],
         metrics |-> [m EXCEPT !.deletes = @ + Cardinality(expired)]]

\* variant: the sweep spares the entries that were read at least once
cleanupUnreadOnly(s, m, t) ==
    LET expired == {k \in DOMAIN s : isExpired(s[k], t) /\ s[k].hits = 0}
    IN  [store |-> [k \in (DOMAIN s) \ expired |-> s[k]],
         metrics |-> [m EXCEPT !.deletes = @ + Cardinality(expired)]]

\* variant: the sweep also evicts the entries that were never read
cleanupEvictsUnread(s, m, t) ==
    LET expired == {k \in DOMAIN s : isExpired(s[k], t) \/ s[k].hits = 0}
    IN  [store |-> [k \in (DOMAIN s) \ expired |-> s[k]],
         metrics |-> [m EXCEPT !.deletes = @ + Cardinality(expired)]]

\* the setInterval callback of startAutoCleanup
CacheManager_startAutoCleanup(s, m, t) ==
    LET expired == {k \in DOMAIN s : isExpired(s[k], t)}
    IN  [store |-> [k \in (DOMAIN s) \ expired |-> s[k]],
         metrics |-> [m EXCEPT !.deletes = @ + Cardinality(expired)]]

\* (num / den).toFixed(2) as a number of hundredths, for num >= 0 and den > 0
toFixed2(num, den) == (200 * num + den) \div (2 * den)

\* JSON.stringify(value).length; JSON.stringify(undefined) is undefined, which has no length
JsonLength(value) ==
    IF value = JsNull THEN 4
    ELSE IF value = JsUndefined THEN -1
    ELSE Len(value) + 2

RECURSIVE SumBytes(_, _)
SumBytes(s, ks) ==
    IF ks = {} THEN 0
    ELSE LET k == CHOOSE x \in ks : TRUE
         IN  JsonLength(s[k].value) * 2 + SumBytes(s, ks \ {k})

\* the size in hundredths of a KB, or the TypeError of reading undefined.length
CacheManager_estimateMemoryUsage(s) ==
    IF \E k \in DOMAIN s : JsonLength(s[k].value) < 0
    THEN [threw |-> TRUE]
    ELSE [threw |-> FALSE, ret |-> toFixed2(SumBytes(s, DOMAIN s), 1024)]

\* hitRate: the hundredths of a percent and the number of decimals printed ("50.00%", "0%")
CacheManager_getStats(s, m) ==
    LET total == m.hits + m.misses
        hitRate == IF total > 0
                   THEN [hundredths |-> toFixed2(m.hits * 100, total), decimals |-> 2]
                   ELSE [hundredths |-> 0, decimals |-> 0]
        memory == CacheManager_estimateMemoryUsage(s)
    IN  IF memory.threw
        THEN [threw |-> TRUE]
        ELSE [threw |-> FALSE,
              ret |-> [hits |-> m.hits, misses |-> m.misses, sets |-> m.sets,
                       deletes |-> m.deletes, hitRate |-> hitRate,
                       entriesStored |-> Cardinality(DOMAIN s),
                       estimatedMemory |-> memory.ret]]

\* getOrSet up to its await: the cache lookup and the `cached !== null` test
getOrSet_lookup(s, m, key, t) ==
    LET r == CacheManager_get(s, m, key, t)
    IN  [store |-> r.store, metrics |-> r.metrics, ret |-> r.ret,
         fetch |-> ~(r.ret # JsNull)]

-----------------------------------------------------------------------------
(* History bookkeeping for the cache (not program state) *)

NoteSet(ls, key, value, ttl, t, by) ==
    MapSet(ls, key, [time |-> t, ttl |-> ttl, value |-> value, by |-> by])

NoteRemoved(ls, ks) == [k \in (DOMAIN ls) \ ks |-> ls[k]]

OpsDone == metrics.hits + metrics.misses + metrics.sets + metrics.deletes

\* the key holds an entry whose age at t does not exceed its ttl
Live(s, key, t) == key \in DOMAIN s /\ t - s[key].createdAt <= s[key].ttl

CacheOp(op, key, ret) ==
    [op |-> op, key |-> key, ret |-> ret]

-----------------------------------------------------------------------------
(* Actions of the cache *)

Idle == [state |-> "idle"]

Set(key, value, ttl) ==
    /\ OpsDone < MaxOps
    /\ LET r == CacheManager_set(store, metrics, key, value, ttl, now)
       IN  /\ store' = r.store
           /\ metrics' = r.metrics
    /\ lastSet' = NoteSet(lastSet, key, value, ttl, now, "set")
    /\ last' = [op |-> "set", key |-> key, ret |-> JsUndefined,
                replaced |-> IF key \notin DOMAIN store THEN "none"
                             ELSE IF Live(store, key, now) THEN "fresh" ELSE "expired",
                replacedHits |-> IF key \in DOMAIN store THEN store[key].hits ELSE 0,
                metricsBefore |-> metrics]
    /\ UNCHANGED <<process, summaries, now, calls, gets, cooldownVars, spamVars, farmingVars, commandVars>>

Get(key) ==
    /\ OpsDone < MaxOps
    /\ LET r == CacheManager_get(store, metrics, key, now)
       IN  /\ store' = r.store
           /\ metrics' = r.metrics
           /\ last' = [op |-> "get", key |-> key, ret |-> r.ret,
                       had |-> key \in DOMAIN store,
                       live |-> Live(store, key, now),
                       hitsBefore |-> metrics.hits, missesBefore |-> metrics.misses,
                       setsBefore |-> metrics.sets, deletesBefore |-> metrics.deletes,
                       entryBefore |-> IF Live(store, key, now)
                                       THEN [createdAt |-> store[key].createdAt,
                                             ttl |-> store[key].ttl,
                                             hits |-> store[key].hits]
                                       ELSE [createdAt |-> 0, ttl |-> 0, hits |-> 0],
                       othersChanged |->
                           \E k \in Keys \ {key} :
                               \/ (k \in DOMAIN r.store) # (k \in DOMAIN store)
                               \/ k \in DOMAIN store /\ r.store[k] # store[k]]
    /\ gets' = gets + 1
    /\ UNCHANGED <<process, summaries, now, calls, lastSet, cooldownVars, spamVars, farmingVars, commandVars>>

\* getOrSet(key, fetchFn, ttl) from its call to `return cached` or to `await fetchFn()`
GetOrSetCall(p, key, ttl) ==
    /\ OpsDone < MaxOps
    /\ calls[p].state = "idle"
    /\ LET r == getOrSet_lookup(store, metrics, key, now)
       IN  /\ store' = r.store
           /\ metrics' = r.metrics
           /\ calls' = [calls EXCEPT ![p] =
                           IF r.fetch
                           THEN [state |-> "awaiting", key |-> key, ttl |-> ttl]
                           ELSE Idle]
           /\ last' = [op |-> "getOrSet", key |-> key, ret |-> r.ret,
                       fetched |-> r.fetch,
                       live |-> Live(store, key, now),
                       hitsBefore |-> metrics.hits, missesBefore |-> metrics.misses]
    /\ gets' = gets + 1
    /\ UNCHANGED <<process, summaries, now, lastSet, cooldownVars, spamVars, farmingVars, commandVars>>

\* the continuation after `await fetchFn()` when the fetch produced value
GetOrSetResolve(p, value) ==
    /\ OpsDone < MaxOps
    /\ calls[p].state = "awaiting"
    /\ LET c == calls[p]
           r == CacheManager_set(store, metrics, c.key, value, c.ttl, now)
       IN  /\ store' = r.store
           /\ metrics' = r.metrics
           /\ lastSet' = NoteSet(lastSet, c.key, value, c.ttl, now, "getOrSet")
           /\ last' = CacheOp("getOrSetReturn", c.key, value)
    /\ calls' = [calls EXCEPT ![p] = Idle]
    /\ UNCHANGED <<process, summaries, now, gets, cooldownVars, spamVars, farmingVars, commandVars>>

\* the continuation after `await fetchFn()` when the fetch failed: log and rethrow
GetOrSetReject(p) ==
    /\ calls[p].state = "awaiting"
    /\ last' = [op |-> "getOrSetThrow", key |-> calls[p].key, ret |-> JsUndefined,
                setsBefore |-> metrics.sets]
    /\ calls' = [calls EXCEPT ![p] = Idle]
    /\ UNCHANGED <<process, summaries, now, store, metrics, lastSet, gets, cooldownVars, spamVars, farmingVars, commandVars>>

Delete(key) ==
    /\ OpsDone < MaxOps
    /\ LET r == CacheManager_delete(store, metrics, key)
       IN  /\ store' = r.store
           /\ metrics' = r.metrics
           /\ last' = [op |-> "delete", key |-> key, hadEntry |-> r.ret,
                       had |-> key \in DOMAIN store,
                       again |-> last.op = "delete" /\ last.key = key /\ last.had,
                       storeChanged |-> r.store # store,
                       deletesBefore |-> metrics.deletes]
    /\ lastSet' = NoteRemoved(lastSet, {key})
    /\ UNCHANGED <<process, summaries, now, calls, gets, cooldownVars, spamVars, farmingVars, commandVars>>

Clear ==
    /\ LET r == CacheManager_clear(store, metrics)
       IN  /\ store' = r.store
           /\ metrics' = r.metrics
    /\ lastSet' = NoteRemoved(lastSet, Keys)
    /\ last' = [op |-> "clear", entriesRemoved |-> Cardinality(DOMAIN store),
                metricsBefore |-> metrics]
    /\ UNCHANGED <<process, summaries, now, calls, gets, cooldownVars, spamVars, farmingVars, commandVars>>

\* one firing of the cleanup timer
CacheSweep ==
    /\ LET r == CacheManager_startAutoCleanup(store, metrics, now)
       IN  /\ store' = r.store
           /\ metrics' = r.metrics
    /\ last' = [op |-> "sweep", pre |-> store, deletesBefore |-> metrics.deletes]
    /\ UNCHANGED <<process, summaries, now, calls, lastSet, gets, cooldownVars, spamVars, farmingVars, commandVars>>

\* the wall clock advances by d ms, up to max
Tick(d, max) ==
    /\ now + d <= max
    /\ now' = now + d
    /\ last' = [op |-> "tick"]
    /\ UNCHANGED <<process, summaries, cacheVars, cooldownVars, spamVars, farmingVars, commandVars>>

-----------------------------------------------------------------------------

Init ==
    /\ now = 0
    /\ store = EmptyMap
    /\ metrics = [hits |-> 0, misses |-> 0, sets |-> 0, deletes |-> 0]
    /\ calls = [p \in Procs |-> Idle]
    /\ cooldowns = EmptyMap
    /\ messageHistory = EmptyMap
    /\ last = [op |-> "init"]
    /\ lastSet = EmptyMap
    /\ denied = [pair \in Users \X Cmds |-> 0]
    /\ checks = 0
    /\ spamLog = EmptyMap
    /\ admitted = [u \in Users |-> << >>]
    /\ lastFlag = {}
    /\ gets = 0
    /\ lastPointsUpdate = EmptyMap
    /\ points = [u \in Users |-> 0]
    /\ pointHistory = << >>
    /\ credits = [r \in Requests |-> Idle]
    /\ botStatus = [commandsExecuted |-> 0, errors |-> 0]
    /\ process = [state |-> "running", error |-> "none", exitAt |-> 0]
    /\ summaries = EmptyMap

\* the calls made on the cache by the rest of the program
CacheOps ==
    \/ \E k \in Keys, v \in Values, ttl \in TTLs : Set(k, v, ttl)
    \/ \E k \in Keys : Get(k)
    \/ \E p \in Procs, k \in Keys, ttl \in TTLs : GetOrSetCall(p, k, ttl)
    \/ \E p \in Procs, v \in Values : GetOrSetResolve(p, v)
    \/ \E p \in Procs : GetOrSetReject(p)
    \/ \E k \in Keys : Delete(k)
    \/ Clear

\* the timer is followed as long as the budget of counted operations lasts
CacheNext ==
    \/ CacheOps
    \/ OpsDone < MaxOps /\ CacheSweep
    \/ Tick(1, MaxCacheNow)

SpecCache == Init /\ [][CacheNext]_vars

\* set, get, getOrSet and delete on one value, with the timer and the clock
CacheReadsNext ==
    \/ \E k \in Keys, ttl \in TTLs : Set(k, "v1", ttl)
    \/ \E k \in Keys : Get(k)
    \/ \E p \in Procs, k \in Keys, ttl \in TTLs : GetOrSetCall(p, k, ttl)
    \/ \E p \in Procs : GetOrSetResolve(p, "v1")
    \/ \E k \in Keys : Delete(k)
    \/ OpsDone < MaxOps /\ CacheSweep
    \/ Tick(1, MaxCacheNow)

SpecCacheReads == Init /\ [][CacheReadsNext]_vars

\* the timer fires for ever, the calls stop after MaxLiveOps counted operations
CacheLiveNext ==
    \/ OpsDone < MaxLiveOps /\ CacheOps
    \/ CacheSweep
    \/ Tick(1, MaxCacheNow)

\* the cleanup timer keeps firing: setInterval re-arms the callback every 600000 ms
SpecCacheLive == Init /\ [][CacheLiveNext]_vars /\ WF_vars(CacheSweep)

-----------------------------------------------------------------------------
(* utils/rateLimit.js : CommandCooldownManager.  cd = this.cooldowns.      *)
(* The constructor also sets maxViolations = 3, which no method reads.     *)

baseEscalation == 1000

\* Math.ceil(x / d) for integers x and d > 0
MathCeil(x, d) == IF x % d = 0 THEN x \div d ELSE (x \div d) + 1

\* variant: rounded down
retryAfterFloor(expiresAt, t) == (expiresAt - t) \div 1000

retryAfter(expiresAt, t) == MathCeil(expiresAt - t, 1000)

\* variant: escalation only from the third violation on
escalatedCooldownAfterThree(cooldownMs, violations) ==
    IF violations >= 3 THEN cooldownMs + (violations * baseEscalation) ELSE cooldownMs

escalatedCooldown(cooldownMs, violations) == cooldownMs + (violations * baseEscalation)

\* variant: an allowed check keeps the violation count of the record it replaces
checkCooldownKeepsViolations(cd, userId, commandName, cooldownMs, t) ==
    LET cd1 == IF userId \notin DOMAIN cd THEN MapSet(cd, userId, EmptyMap) ELSE cd
        userCooldowns == cd1[userId]
        has == commandName \in DOMAIN userCooldowns
    IN  IF has /\ ~(t >= userCooldowns[commandName].expiresAt)
        THEN LET cooldownData == userCooldowns[commandName]
                 violations == cooldownData.violations + 1
             IN  [cooldowns |->
                      MapSet(cd1, userId,
                             MapSet(userCooldowns, commandName,
                                    [cooldownData EXCEPT !.violations = violations])),
                  ret |-> [allowed |-> FALSE,
                           retryAfter |-> retryAfter(cooldownData.expiresAt, t),
                           violations |-> violations]]
        ELSE LET violations == IF has THEN userCooldowns[commandName].violations ELSE 0
             IN  [cooldowns |->
                      MapSet(cd1, userId,
                             MapSet(userCooldowns, commandName,
                                    [expiresAt |-> t + escalatedCooldown(cooldownMs, violations),
                                     violations |-> violations])),
                  ret |-> [allowed |-> TRUE]]

\* variant: a denied check starts the cooldown again
checkCooldownDeniedProlongs(cd, userId, commandName, cooldownMs, t) ==
    LET cd1 == IF userId \notin DOMAIN cd THEN MapSet(cd, userId, EmptyMap) ELSE cd
        userCooldowns == cd1[userId]
        has == commandName \in DOMAIN userCooldowns
    IN  IF has /\ ~(t >= userCooldowns[commandName].expiresAt)
        THEN LET cooldownData == userCooldowns[commandName]
                 violations == cooldownData.violations + 1
             IN  [cooldowns |->
                      MapSet(cd1, userId,
                             MapSet(userCooldowns, commandName,
                                    [expiresAt |-> t + cooldownMs,
                                     violations |-> violations])),
                  ret |-> [allowed |-> FALSE,
                           retryAfter |-> retryAfter(cooldownData.expiresAt, t),
                           violations |-> violations]]
        ELSE LET violations == IF has THEN userCooldowns[commandName].violations ELSE 0
             IN  [cooldowns |->
                      MapSet(cd1, userId,
                             MapSet(userCooldowns, commandName,
                                    [expiresAt |-> t + escalatedCooldown(cooldownMs, violations),
                                     violations |-> 0])),
                  ret |-> [allowed |-> TRUE]]

CommandCooldownManager_checkCooldown(cd, userId, commandName, cooldownMs, t) ==
    LET cd1 == IF userId \notin DOMAIN cd THEN MapSet(cd, userId, EmptyMap) ELSE cd
        userCooldowns == cd1[userId]
        has == commandName \in DOMAIN userCooldowns
    IN  IF has /\ ~(t >= userCooldowns[commandName].expiresAt)
        THEN LET cooldownData == userCooldowns[commandName]
                 violations == cooldownData.violations + 1
             IN  [cooldowns |->
                      MapSet(cd1, userId,
                             MapSet(userCooldowns, commandName,
                                    [cooldownData EXCEPT !.violations = violations])),
                  ret |-> [allowed |-> FALSE,
                           retryAfter |-> retryAfter(cooldownData.expiresAt, t),
                           violations |-> violations]]
        ELSE LET violations == IF has THEN userCooldowns[commandName].violations ELSE 0
             IN  [cooldowns |->
                      MapSet(cd1, userId,
                             MapSet(userCooldowns, commandName,
                                    [expiresAt |-> t + escalatedCooldown(cooldownMs, violations),
                                     violations |-> 0])),
                  ret |-> [allowed |-> TRUE]]

\* variant: the record is kept and only its violation count is cleared
resetViolationsOnly(cd, userId, commandName) ==
    IF userId \in DOMAIN cd /\ commandName \in DOMAIN cd[userId]
    THEN MapSet(cd, userId,
                MapSet(cd[userId], commandName,
                       [cd[userId][commandName] EXCEPT !.violations = 0]))
    ELSE cd

CommandCooldownManager_resetCooldown(cd, userId, commandName) ==
    IF userId \in DOMAIN cd
    THEN MapSet(cd, userId, MapDelete(cd[userId], commandName))
    ELSE cd

\* variant: a record is removed only after its expiry instant has passed
cleanupAfterExpiry(cd, t) ==
    LET commands(userId) ==
            [cmd \in {c \in DOMAIN cd[userId] : ~(t > cd[userId][c].expiresAt)}
                |-> cd[userId][cmd]]
        expiredUsers == {userId \in DOMAIN cd : DOMAIN commands(userId) = {}}
    IN  [userId \in (DOMAIN cd) \ expiredUsers |-> commands(userId)]

\* the setInterval callback of startAutoCleanup
CommandCooldownManager_startAutoCleanup(cd, t) ==
    LET commands(userId) ==
            [cmd \in {c \in DOMAIN cd[userId] : ~(t >= cd[userId][c].expiresAt)}
                |-> cd[userId][cmd]]
        expiredUsers == {userId \in DOMAIN cd : DOMAIN commands(userId) = {}}
    IN  [userId \in (DOMAIN cd) \ expiredUsers |-> commands(userId)]

-----------------------------------------------------------------------------
(* utils/rateLimit.js : AntiSpamManager.  h = this.messageHistory.         *)

messageThreshold == 5
timeWindow == 5000
autoMute == 30000

\* variant: flagged only above the threshold
overThreshold(count) == count > messageThreshold

\* variant: the message being checked counts towards the threshold
thresholdWithCurrent(count) == count + 1 >= messageThreshold

exceedsThreshold(count) == count >= messageThreshold

\* variant: the window taken in seconds
inWindowSeconds(timestamp, t) == t - timestamp < timeWindow * 1000

\* the filter predicate: the timestamp is not older than the time window
inWindow(timestamp, t) == t - timestamp < timeWindow

\* variant: a flagged call is recorded like an admitted one
checkSpamRecordsFlagged(h, userId, t) ==
    LET h1 == IF userId \notin DOMAIN h THEN MapSet(h, userId, << >>) ELSE h
        keep(timestamp) == inWindow(timestamp, t)
        filteredHistory == SelectSeq(h1[userId], keep)
    IN  [messageHistory |-> MapSet(h1, userId, Append(filteredHistory, t)),
         ret |-> IF exceedsThreshold(Len(filteredHistory))
                 THEN [isSpamming |-> TRUE, muteDuration |-> autoMute]
                 ELSE [isSpamming |-> FALSE]]

\* variant: the admitted timestamp is appended to the unfiltered history
checkSpamKeepsOldTimestamps(h, userId, t) ==
    LET h1 == IF userId \notin DOMAIN h THEN MapSet(h, userId, << >>) ELSE h
        history == h1[userId]
        keep(timestamp) == inWindow(timestamp, t)
        filteredHistory == SelectSeq(history, keep)
    IN  IF exceedsThreshold(Len(filteredHistory))
        THEN [messageHistory |-> h1,
              ret |-> [isSpamming |-> TRUE, muteDuration |-> autoMute]]
        ELSE [messageHistory |-> MapSet(h1, userId, Append(history, t)),
              ret |-> [isSpamming |-> FALSE]]

AntiSpamManager_checkSpam(h, userId, t) ==
    LET h1 == IF userId \notin DOMAIN h THEN MapSet(h, userId, << >>) ELSE h
        history == h1[userId]
        keep(timestamp) == inWindow(timestamp, t)
        filteredHistory == SelectSeq(history, keep)
    IN  IF exceedsThreshold(Len(filteredHistory))
        THEN [messageHistory |-> h1,
              ret |-> [isSpamming |-> TRUE, muteDuration |-> autoMute]]
        ELSE [messageHistory |-> MapSet(h1, userId, Append(filteredHistory, t)),
              ret |-> [isSpamming |-> FALSE]]

\* variant: only the oldest timestamp of the user is dropped
dropOldestTimestamp(h, userId) ==
    IF userId \in DOMAIN h /\ Len(h[userId]) > 1
    THEN MapSet(h, userId, Tail(h[userId]))
    ELSE MapDelete(h, userId)

AntiSpamManager_clearUserHistory(h, userId) == MapDelete(h, userId)

-----------------------------------------------------------------------------
(* Actions of the cooldown manager *)

\* the state of a (user, command) pair as a caller sees it at time t
PairState(cd, userId, commandName, t) ==
    IF userId \in DOMAIN cd /\ commandName \in DOMAIN cd[userId]
    THEN [kind |-> IF t < cd[userId][commandName].expiresAt THEN "active" ELSE "expired",
          expiresAt |-> cd[userId][commandName].expiresAt,
          violations |-> cd[userId][commandName].violations]
    ELSE [kind |-> "none", expiresAt |-> 0, violations |-> 0]

CheckCooldown(userId, commandName, cooldownMs) ==
    /\ checks < MaxChecks
    /\ checks' = checks + 1
    /\ LET r == CommandCooldownManager_checkCooldown(cooldowns, userId, commandName,
                                                     cooldownMs, now)
           afterReset == /\ last.op = "resetCooldown"
                         /\ last.user = userId
                         /\ last.cmd = commandName
       IN  /\ cooldowns' = r.cooldowns
           /\ denied' = [denied EXCEPT ![<<userId, commandName>>] =
                            IF r.ret.allowed THEN 0 ELSE @ + 1]
           /\ last' = [op |-> "checkCooldown", user |-> userId, cmd |-> commandName,
                       base |-> cooldownMs, ret |-> r.ret,
                       pre |-> PairState(cooldowns, userId, commandName, now),
                       deniedBefore |-> denied[<<userId, commandName>>],
                       afterReset |-> afterReset,
                       resetFrom |-> IF afterReset THEN last.pre.kind ELSE "n/a",
                       othersChanged |->
                           \E u \in Users, c \in Cmds :
                               /\ <<u, c>> # <<userId, commandName>>
                               /\ PairState(r.cooldowns, u, c, now)
                                      # PairState(cooldowns, u, c, now)]
    /\ UNCHANGED <<process, summaries, now, cacheVars, spamVars, farmingVars, commandVars>>

ResetCooldown(userId, commandName) ==
    /\ cooldowns' = CommandCooldownManager_resetCooldown(cooldowns, userId, commandName)
    /\ denied' = [denied EXCEPT ![<<userId, commandName>>] = 0]
    /\ last' = [op |-> "resetCooldown", user |-> userId, cmd |-> commandName,
                hadUser |-> userId \in DOMAIN cooldowns,
                changed |-> cooldowns' # cooldowns,
                pre |-> PairState(cooldowns, userId, commandName, now)]
    /\ UNCHANGED <<process, summaries, now, checks, cacheVars, spamVars, farmingVars, commandVars>>

CooldownSweep ==
    /\ cooldowns' = CommandCooldownManager_startAutoCleanup(cooldowns, now)
    /\ last' = [op |-> "cooldownSweep", before |-> cooldowns]
    /\ UNCHANGED <<process, summaries, now, denied, checks, cacheVars, spamVars, farmingVars, commandVars>>

CooldownNext ==
    \/ \E u \in Users, c \in Cmds, ms \in CooldownMs : CheckCooldown(u, c, ms)
    \/ \E u \in Users, c \in Cmds : ResetCooldown(u, c)
    \/ CooldownSweep
    \/ \E d \in CooldownTicks : Tick(d, MaxCooldownNow)

SpecCooldown == Init /\ [][CooldownNext]_vars

-----------------------------------------------------------------------------
(* Actions of the spam detector *)

\* the burst a user's checks are in: it starts with the first check made with no
\* history and takes the checks made less than timeWindow after that one
NoteCheck(log, userId, isSpamming, t) ==
    IF userId \notin DOMAIN log
    THEN MapSet(log, userId, [start |-> t, results |-> <<isSpamming>>])
    ELSE IF t - log[userId].start < timeWindow /\ Len(log[userId].results) < MaxBurst
    THEN MapSet(log, userId, [log[userId] EXCEPT !.results = Append(@, isSpamming)])
    ELSE log

\* the instants of a sequence that are less than timeWindow before t
Recent(instants, t) == SelectSeq(instants, LAMBDA ts : t - ts < timeWindow)

\* the stored timestamps of a user (none when the user has no history)
Stored(h, userId) == IF userId \in DOMAIN h THEN h[userId] ELSE << >>

CheckSpam(userId) ==
    /\ LET r == AntiSpamManager_checkSpam(messageHistory, userId, now)
           before == admitted[userId]
       IN  /\ messageHistory' = r.messageHistory
           /\ spamLog' = NoteCheck(spamLog, userId, r.ret.isSpamming, now)
           /\ admitted' = IF r.ret.isSpamming THEN admitted
                          ELSE [admitted EXCEPT ![userId] = Append(Recent(@, now), now)]
           /\ lastFlag' = IF r.ret.isSpamming THEN lastFlag \cup {userId}
                          ELSE lastFlag \ {userId}
           /\ last' = [op |-> "checkSpam", user |-> userId, ret |-> r.ret,
                       recent |-> Len(Recent(before, now)),
                       since |-> IF before = << >> THEN -1 ELSE now - before[Len(before)],
                       wasFlagged |-> userId \in lastFlag,
                       changed |-> Stored(r.messageHistory, userId) # Stored(messageHistory, userId)]
    /\ UNCHANGED <<process, summaries, now, cacheVars, cooldownVars, farmingVars, commandVars>>

ClearUserHistory(userId) ==
    /\ messageHistory' = AntiSpamManager_clearUserHistory(messageHistory, userId)
    /\ spamLog' = MapDelete(spamLog, userId)
    /\ admitted' = [admitted EXCEPT ![userId] = << >>]
    /\ lastFlag' = lastFlag \ {userId}
    /\ last' = [op |-> "clearUserHistory", user |-> userId,
                wasFlagged |-> userId \in lastFlag,
                recent |-> Len(Recent(admitted[userId], now)),
                othersChanged |->
                    \E u \in Users \ {userId} :
                        \/ (u \in DOMAIN messageHistory') # (u \in DOMAIN messageHistory)
                        \/ Stored(messageHistory', u) # Stored(messageHistory, u)]
    /\ UNCHANGED <<process, summaries, now, cacheVars, cooldownVars, farmingVars, commandVars>>

SpamNext ==
    \/ \E u \in Users : CheckSpam(u)
    \/ \E u \in Users : ClearUserHistory(u)
    \/ \E d \in SpamTicks : Tick(d, MaxSpamNow)

SpecSpam == Init /\ [][SpamNext]_vars

-----------------------------------------------------------------------------
(* utils/rateLimit.js : LeaderboardFarmingPrevention.  lpu = lastPointsUpdate *)

minIntervalBetweenUpdates == 30000

\* variant: an action exactly the minimum interval after the last one is still too soon
tooSoonInclusive(timeSinceLastUpdate) == timeSinceLastUpdate <= minIntervalBetweenUpdates

tooSoon(timeSinceLastUpdate) == timeSinceLastUpdate < minIntervalBetweenUpdates

\* variant: a call that comes too soon throws instead of returning the denial
canPerformActionThrows(lpu, userId, t) ==
    IF userId \notin DOMAIN lpu \/ lpu[userId] = 0
    THEN [lastPointsUpdate |-> MapSet(lpu, userId, t), ret |-> [allowed |-> TRUE]]
    ELSE IF tooSoon(t - lpu[userId])
    THEN [lastPointsUpdate |-> lpu,
          ret |-> [threw |-> TRUE, message |-> "Points cooldown active"]]
    ELSE [lastPointsUpdate |-> MapSet(lpu, userId, t), ret |-> [allowed |-> TRUE]]

\* variant: a call that comes too soon restarts the interval
canPerformActionDeniedRestarts(lpu, userId, t) ==
    IF userId \notin DOMAIN lpu \/ lpu[userId] = 0
    THEN [lastPointsUpdate |-> MapSet(lpu, userId, t), ret |-> [allowed |-> TRUE]]
    ELSE LET timeSinceLastUpdate == t - lpu[userId]
         IN  IF tooSoon(timeSinceLastUpdate)
             THEN [lastPointsUpdate |-> MapSet(lpu, userId, t),
                   ret |-> [allowed |-> FALSE,
                            retryAfter |-> MathCeil(minIntervalBetweenUpdates
                                                      - timeSinceLastUpdate, 1000),
                            reason |-> "Points cooldown active"]]
             ELSE [lastPointsUpdate |-> MapSet(lpu, userId, t), ret |-> [allowed |-> TRUE]]

\* `!lastUpdate` holds for undefined (no record) and for the number 0
LeaderboardFarmingPrevention_canPerformAction(lpu, userId, t) ==
    IF userId \notin DOMAIN lpu \/ lpu[userId] = 0
    THEN [lastPointsUpdate |-> MapSet(lpu, userId, t), ret |-> [allowed |-> TRUE]]
    ELSE LET timeSinceLastUpdate == t - lpu[userId]
         IN  IF tooSoon(timeSinceLastUpdate)
             THEN [lastPointsUpdate |-> lpu,
                   ret |-> [allowed |-> FALSE,
                            retryAfter |-> MathCeil(minIntervalBetweenUpdates
                                                      - timeSinceLastUpdate, 1000),
                            reason |-> "Points cooldown active"]]
             ELSE [lastPointsUpdate |-> MapSet(lpu, userId, t), ret |-> [allowed |-> TRUE]]

\* Math.round(x / d) for integers x >= 0 and d > 0
MathRound(x, d) == (2 * x + d) \div (2 * d)

-----------------------------------------------------------------------------
(* Actions of the farming guard and of the path that credits points:       *)
(* AIController.evaluateAnswer -> PointsRepository.addPoints, split at the *)
(* awaits of addPoints (read the balance, update members, log the row).    *)

\* checkLeaderboardFarming(userId); Date.now() is a positive number
CanPerformAction(userId) ==
    /\ now > 0
    /\ LET r == LeaderboardFarmingPrevention_canPerformAction(lastPointsUpdate, userId, now)
           had == userId \in DOMAIN lastPointsUpdate
       IN  /\ lastPointsUpdate' = r.lastPointsUpdate
           /\ last' = [op |-> "canPerformAction", user |-> userId, ret |-> r.ret,
                       had |-> had,
                       lastAction |-> IF had THEN lastPointsUpdate[userId] ELSE -1]
    /\ UNCHANGED <<process, summaries, now, points, pointHistory, credits,
                   cacheVars, cooldownVars, spamVars, commandVars>>

\* evaluateAnswer from the evaluation's score to the response (score < 70) or to
\* addPoints' `await this.update(...)`, the balance having been read
EvaluateAnswer(r, userId, score) ==
    /\ credits[r].state = "idle"
    /\ Len(pointHistory) < MaxCredits
    /\ IF score >= 70
       THEN /\ credits' = [credits EXCEPT ![r] =
                              [state |-> "update", user |-> userId,
                               points |-> MathRound(score, 10),
                               currentPoints |-> points[userId]]]
            /\ last' = [op |-> "evaluateAnswer", user |-> userId, score |-> score]
       ELSE /\ credits' = credits
            /\ last' = [op |-> "evaluateAnswerReturn", user |-> userId, pointsAwarded |-> 0]
    /\ UNCHANGED <<process, summaries, now, lastPointsUpdate, points, pointHistory,
                   cacheVars, cooldownVars, spamVars, commandVars>>

\* addPoints: the members row is updated with currentPoints + points
AddPointsUpdate(r) ==
    /\ credits[r].state = "update"
    /\ LET c == credits[r]
       IN  /\ points' = [points EXCEPT ![c.user] = c.currentPoints + c.points]
           /\ last' = [op |-> "addPointsUpdate", user |-> c.user]
    /\ credits' = [credits EXCEPT ![r].state = "log"]
    /\ UNCHANGED <<process, summaries, now, lastPointsUpdate, pointHistory,
                   cacheVars, cooldownVars, spamVars, commandVars>>

\* addPoints: the update fails, updateError is thrown and evaluateAnswer answers 500
AddPointsUpdateError(r) ==
    /\ credits[r].state = "update"
    /\ last' = [op |-> "evaluateAnswerError", user |-> credits[r].user]
    /\ credits' = [credits EXCEPT ![r] = Idle]
    /\ UNCHANGED <<process, summaries, now, lastPointsUpdate, points, pointHistory,
                   cacheVars, cooldownVars, spamVars, commandVars>>

\* addPoints: the point_history row is created; evaluateAnswer responds
AddPointsLog(r) ==
    /\ credits[r].state = "log"
    /\ LET c == credits[r]
       IN  /\ pointHistory' = Append(pointHistory,
                                     [user_id |-> c.user, points_added |-> c.points])
           /\ last' = [op |-> "evaluateAnswerReturn", user |-> c.user,
                       pointsAwarded |-> c.points]
    /\ credits' = [credits EXCEPT ![r] = Idle]
    /\ UNCHANGED <<process, summaries, now, lastPointsUpdate, points,
                   cacheVars, cooldownVars, spamVars, commandVars>>

FarmingNext ==
    \/ \E u \in Users : CanPerformAction(u)
    \/ \E r \in Requests, u \in Users, score \in Scores : EvaluateAnswer(r, u, score)
    \/ \E r \in Requests : AddPointsUpdate(r)
    \/ \E r \in Requests : AddPointsUpdateError(r)
    \/ \E r \in Requests : AddPointsLog(r)
    \/ \E d \in FarmingTicks : Tick(d, MaxFarmingNow)

SpecFarming == Init /\ [][FarmingNext]_vars

-----------------------------------------------------------------------------
(* index.js : the interactionCreate handler of slash commands, with        *)
(* checkCommandRateLimit of utils/rateLimit.js.  The history variables of  *)
(* the cooldown specification (denied, checks) are not kept here.          *)

\* config.rateLimiting.commands
rateLimiting_commands ==
    [default |-> 5000, leaderboard |-> 3000, mypoints |-> 3000,
     terminology |-> 10000, dailyQuestions |-> 5000]

\* config.rateLimiting.commands[commandName] || 5000
commandCooldown(commandName) ==
    IF commandName \in DOMAIN rateLimiting_commands
    THEN rateLimiting_commands[commandName]
    ELSE 5000

\* the result, and the retry-after of the cooldown message that is sent on a denial
checkCommandRateLimit(cd, userId, commandName, cooldownMs, t) ==
    LET result == CommandCooldownManager_checkCooldown(cd, userId, commandName, cooldownMs, t)
    IN  [cooldowns |-> result.cooldowns,
         ret |-> result.ret.allowed,
         message |-> IF result.ret.allowed THEN 0 ELSE result.ret.retryAfter]

\* the handler for a slash command; delivered: interaction.reply did not reject
InteractionCreate(userId, commandName, delivered) ==
    /\ botStatus.commandsExecuted + botStatus.errors < MaxInteractions
    /\ LET cooldown == commandCooldown(commandName)
           r == checkCommandRateLimit(cooldowns, userId, commandName, cooldown, now)
           allowed == r.ret
       IN  /\ cooldowns' = r.cooldowns
           /\ botStatus' = IF ~allowed
                           THEN [botStatus EXCEPT !.errors = @ + 1]
                           ELSE [botStatus EXCEPT !.commandsExecuted = @ + 1]
           /\ last' = [op |-> "interactionCreate", user |-> userId, cmd |-> commandName,
                       allowed |-> allowed,
                       reply |-> [retryAfter |-> r.message,
                                  delivered |-> ~allowed /\ delivered],
                       statusBefore |-> botStatus]
    /\ UNCHANGED <<process, summaries, now, denied, checks, cacheVars, spamVars, farmingVars>>

CommandsNext ==
    \/ \E u \in Users, c \in CommandNames, delivered \in BOOLEAN : InteractionCreate(u, c, delivered)
    \/ CooldownSweep
    \/ \E d \in CooldownTicks : Tick(d, MaxCooldownNow)

SpecCommands == Init /\ [][CommandsNext]_vars

-----------------------------------------------------------------------------
(* utils/logger.js : the process-wide handler of uncaught exceptions, and  *)
(* the sweeps as the callbacks of setInterval.  Neither callback has a     *)
(* try/catch; the one call in them that is not an operation on the         *)
(* manager's own Map is logger.debug, made when the sweep removed          *)
(* something.  An exception leaving a timer callback is an uncaught        *)
(* exception of the process.                                               *)

\* the delay of setTimeout(() => process.exit(1), 1000)
exitDelay == 1000

\* process.on('uncaughtException'): log the error, exit one second later
uncaughtException(proc, error, t) ==
    IF proc.state = "running"
    THEN [state |-> "exiting", error |-> error, exitAt |-> t + exitDelay]
    ELSE proc

\* a firing of the cache's cleanup timer in which logger.debug('Cache cleanup') throws
CacheSweepThrow ==
    /\ LET r == CacheManager_startAutoCleanup(store, metrics, now)
           removed == Cardinality(DOMAIN store) - Cardinality(DOMAIN r.store)
       IN  /\ removed > 0
           /\ store' = r.store
           /\ metrics' = r.metrics
    /\ process' = uncaughtException(process, "Cache cleanup", now)
    /\ last' = [op |-> "sweepThrow"]
    /\ UNCHANGED <<summaries, now, calls, lastSet, gets, cooldownVars, spamVars, farmingVars, commandVars>>

\* a firing of the cooldown cleanup timer in which logger.debug('Cooldown cleanup') throws
CooldownSweepThrow ==
    /\ LET swept == CommandCooldownManager_startAutoCleanup(cooldowns, now)
           expiredUsers == (DOMAIN cooldowns) \ (DOMAIN swept)
       IN  /\ Cardinality(expiredUsers) > 0
           /\ cooldowns' = swept
    /\ process' = uncaughtException(process, "Cooldown cleanup", now)
    /\ last' = [op |-> "cooldownSweepThrow"]
    /\ UNCHANGED <<summaries, now, denied, checks, cacheVars, spamVars, farmingVars, commandVars>>

\* the timer armed by the handler fires: process.exit(1)
ProcessExit ==
    /\ process.state = "exiting"
    /\ now >= process.exitAt
    /\ process' = [process EXCEPT !.state = "exited"]
    /\ last' = [op |-> "exit"]
    /\ UNCHANGED <<summaries, now, cacheVars, cooldownVars, spamVars, farmingVars, commandVars>>

\* calls are made and timers fire as long as the process has not exited
Alive == process.state # "exited"

ProcessNext ==
    \/ Alive /\ \E k \in Keys, ttl \in TTLs : Set(k, "v1", ttl)
    \/ Alive /\ \E u \in LimiterUsers, c \in LimiterCmds, ms \in LimiterCooldownMs :
                    CheckCooldown(u, c, ms)
    \/ Alive /\ CacheSweep
    \/ Alive /\ CacheSweepThrow
    \/ Alive /\ CooldownSweep
    \/ Alive /\ CooldownSweepThrow
    \/ Alive /\ \E d \in LimiterTicks : Tick(d, MaxLimitersNow)
    \/ ProcessExit

SpecProcess == Init /\ [][ProcessNext]_vars

-----------------------------------------------------------------------------
(* services/analyticsService.js : the AnalyticsService that index.js       *)
(* constructs with no repository and with the CacheManager singleton.      *)
(* Without a repository every await of getDashboardSummary is on a value   *)
(* that is already there, so no timer and no other request runs between    *)
(* its lookup and its stores.  CacheManager has no deletePattern, so       *)
(* invalidateAnalyticsCaches removes nothing.                              *)

dashboardSummaryKey(days) ==
    IF days = 7 THEN "analytics:dashboard-summary:7" ELSE "analytics:dashboard-summary:30"

activeMembersKey(days) ==
    IF days = 7 THEN "analytics:active-members:7" ELSE "analytics:active-members:30"

pointsGrowthKey(days) ==
    IF days = 7 THEN "analytics:points-growth:7" ELSE "analytics:points-growth:30"

\* `if (cached)`
Truthy(value) == value \notin {JsNull, JsUndefined}

\* getActiveMembersData(days, false): no lookup, the data stored with ttl 60 * 60
AnalyticsService_getActiveMembersData(s, m, days, t) ==
    CacheManager_set(s, m, activeMembersKey(days), "activeMembers", 60 * 60, t)

\* getPointsGrowthData(days, false): no lookup, the data stored with ttl 60 * 60 * 1000
AnalyticsService_getPointsGrowthData(s, m, days, t) ==
    CacheManager_set(s, m, pointsGrowthKey(days), "pointsGrowth", 60 * 60 * 1000, t)

AnalyticsService_getDashboardSummary(s, m, days, t) ==
    LET cached == CacheManager_get(s, m, dashboardSummaryKey(days), t)
        active == AnalyticsService_getActiveMembersData(cached.store, cached.metrics, days, t)
        growth == AnalyticsService_getPointsGrowthData(active.store, active.metrics, days, t)
        stored == CacheManager_set(growth.store, growth.metrics,
                                   dashboardSummaryKey(days), "summary", 60 * 60, t)
    IN  IF Truthy(cached.ret)
        THEN [store |-> cached.store, metrics |-> cached.metrics,
              ret |-> cached.ret, built |-> FALSE]
        ELSE [store |-> stored.store, metrics |-> stored.metrics,
              ret |-> "summary", built |-> TRUE]

\* GET /analytics/dashboard-summary?days=...
GetDashboardSummary(days) ==
    /\ metrics.hits + metrics.misses < MaxSummaryCalls
    /\ LET r == AnalyticsService_getDashboardSummary(store, metrics, days, now)
       IN  /\ store' = r.store
           /\ metrics' = r.metrics
           /\ summaries' = IF r.built THEN MapSet(summaries, days, now) ELSE summaries
           /\ last' = [op |-> "getDashboardSummary", days |-> days, ret |-> r.ret,
                       built |-> r.built,
                       builtBefore |-> days \in DOMAIN summaries,
                       builtAt |-> IF days \in DOMAIN summaries THEN summaries[days] ELSE 0]
    /\ UNCHANGED <<process, now, calls, lastSet, gets, cooldownVars, spamVars, farmingVars, commandVars>>

AnalyticsNext ==
    \/ \E days \in Days : GetDashboardSummary(days)
    \/ CacheSweep
    \/ \E t \in AnalyticsInstants : t > now /\ Tick(t - now, MaxAnalyticsNow)

SpecAnalytics == Init /\ [][AnalyticsNext]_vars

-----------------------------------------------------------------------------
(* The three limiters of utils/rateLimit.js side by side, with the two     *)
(* timers the program arms (the sweep of the cooldown manager and the      *)
(* sweep of the cache).  No timer is armed by AntiSpamManager or by        *)
(* LeaderboardFarmingPrevention, and no code calls clearUserHistory.       *)

LimitersNext ==
    \/ \E u \in LimiterUsers, c \in LimiterCmds, ms \in LimiterCooldownMs :
           CheckCooldown(u, c, ms)
    \/ \E u \in LimiterUsers : CheckSpam(u)
    \/ \E u \in LimiterUsers : ClearUserHistory(u)
    \/ \E u \in LimiterUsers : CanPerformAction(u)
    \/ CooldownSweep
    \/ CacheSweep
    \/ \E d \in LimiterTicks : Tick(d, MaxLimitersNow)

SpecLimiters == Init /\ [][LimitersNext]_vars

\* the two limiters that report a retryAfter, on a clock that stops inside their
\* intervals
RetryNext ==
    \/ \E u \in LimiterUsers, c \in LimiterCmds, ms \in LimiterCooldownMs :
           CheckCooldown(u, c, ms)
    \/ \E u \in LimiterUsers : CanPerformAction(u)
    \/ \E d \in CooldownTicks : Tick(d, MaxCooldownNow)

SpecRetry == Init /\ [][RetryNext]_vars

\* setInterval re-arms both sweeps for ever (every 60000 ms and every 600000 ms)
SpecLimitersLive ==
    Init /\ [][LimitersNext]_vars /\ WF_vars(CooldownSweep) /\ WF_vars(CacheSweep)

-----------------------------------------------------------------------------
(* Claims about the cache, checked under SpecCache.  In a state whose last *)
(* step is an operation, now is still the instant that operation ran at.   *)

\* C1: get never returns a value older than its ttl: whatever came before, a
\* get that returns something other than null (absent) found a set of that key,
\* not deleted or cleared since, whose age now - createdAt is at most its ttl.
C1_GetNeverStale ==
    (last.op = "get" /\ last.ret # JsNull) =>
        /\ last.key \in DOMAIN lastSet
        /\ ~(now - lastSet[last.key].time > lastSet[last.key].ttl)

\* a get of a key whose non-null entry was still stored and was older than its ttl
C1_Witness ==
    /\ last.op = "get"
    /\ last.had
    /\ last.key \in DOMAIN lastSet
    /\ lastSet[last.key].value # JsNull
    /\ now - lastSet[last.key].time > lastSet[last.key].ttl
    /\ last.ret = JsNull

\* C2: for ttl > 0, get at the instant of set(key, v, ttl) returns v, and get at
\* set-time + ttl + 1 with no set of the key in between returns null (absent).
C2_SetThenGet ==
    (last.op = "get" /\ last.key \in DOMAIN lastSet /\ lastSet[last.key].ttl > 0) =>
        LET s == lastSet[last.key]
        IN  /\ (now = s.time => last.ret = s.value)
            /\ (now = s.time + s.ttl + 1 => last.ret = JsNull)

\* a get at set-time + ttl + 1 that found the entry of a non-null value still stored,
\* after an earlier get had returned it
C2_Witness ==
    /\ last.op = "get"
    /\ last.had
    /\ last.key \in DOMAIN lastSet
    /\ lastSet[last.key].value # JsNull
    /\ now = lastSet[last.key].time + lastSet[last.key].ttl + 1
    /\ metrics.hits = 1
    /\ metrics.sets = 1

\* C3 (as claimed): a getOrSet call on a key whose value an earlier, completed
\* getOrSet stored, within that entry's ttl and with no set, delete or clear of the
\* key in between, does not invoke the fetch function and returns the stored value,
\* for every value the fetch function returned.
C3_SecondCallDoesNotFetch ==
    (/\ last.op = "getOrSet"
     /\ last.key \in DOMAIN lastSet
     /\ lastSet[last.key].by = "getOrSet"
     /\ now - lastSet[last.key].time <= lastSet[last.key].ttl) =>
        /\ ~last.fetched
        /\ last.ret = lastSet[last.key].value

\* C4 (as claimed): when the fetch function fails, getOrSet rethrows without calling
\* set, and afterwards the store holds no entry for the key.
C4_FailedFetchLeavesNoEntry ==
    last.op = "getOrSetThrow" =>
        /\ metrics.sets = last.setsBefore
        /\ last.key \notin DOMAIN store

\* C5 (as claimed): the miss-check and the store of getOrSet are atomic, so no two
\* getOrSet calls on one key are ever both waiting for their fetch function.
C5_NoOverlappingFetch ==
    \A p, q \in Procs :
        (p # q /\ calls[p].state = "awaiting" /\ calls[q].state = "awaiting") =>
            calls[p].key # calls[q].key

\* C17: every get adds 1 to exactly one of the hits and misses counters, to hits exactly
\* when it returned a non-expired entry, so hits + misses is the number of get calls
\* made; in every state a getStats that returns reports the hit rate
\* hits / (hits + misses) as a percentage (to two decimals), and 0 when no get was made.
C17_HitsPlusMissesCountGets ==
    /\ metrics.hits + metrics.misses = gets
    /\ last.op \in {"get", "getOrSet"} =>
           /\ metrics.hits = last.hitsBefore + (IF last.live THEN 1 ELSE 0)
           /\ metrics.misses = last.missesBefore + (IF last.live THEN 0 ELSE 1)
    /\ LET stats == CacheManager_getStats(store, metrics)
       IN  ~stats.threw =>
               /\ stats.ret.hits = metrics.hits /\ stats.ret.misses = metrics.misses
               /\ gets = 0 => stats.ret.hitRate.hundredths = 0
               /\ gets > 0 =>
                      LET diff == stats.ret.hitRate.hundredths * gets - metrics.hits * 10000
                      IN  2 * diff <= gets /\ -2 * diff <= gets

\* one set, one get of an unset key and one get of the set key: misses = 1, hits = 1, 50%
C17_Witness ==
    /\ last.op = "get"
    /\ last.live
    /\ metrics = [hits |-> 1, misses |-> 1, sets |-> 1, deletes |-> 0]
    /\ gets = 2
    /\ ~CacheManager_getStats(store, metrics).threw
    /\ CacheManager_getStats(store, metrics).ret.hitRate = [hundredths |-> 5000, decimals |-> 2]

\* C18: delete of an absent key returns false and leaves the store and the deletes
\* counter unchanged; delete of a present key returns true and adds 1 to deletes, and
\* the same delete repeated at once returns false and adds nothing.
C18_DeleteReportsPresence ==
    last.op = "delete" =>
        /\ last.hadEntry = last.had
        /\ last.key \notin DOMAIN store
        /\ ~last.had => (~last.storeChanged /\ metrics.deletes = last.deletesBefore)
        /\ last.had => metrics.deletes = last.deletesBefore + 1
        /\ last.again => (last.hadEntry = FALSE /\ metrics.deletes = last.deletesBefore)

\* the second of two deletes in a row of a key that was present
C18_Witness ==
    /\ last.op = "delete"
    /\ last.again
    /\ last.hadEntry = FALSE
    /\ metrics.deletes = 1
    /\ ~last.storeChanged

\* C19: a sweep removes exactly the entries whose age exceeds their ttl at sweep time:
\* the non-expired entries are kept unchanged, deletes grows by the number removed, and
\* a getStats that returns after the sweep reports the number of entries that were kept.
C19_SweepRemovesExactlyExpired ==
    /\ last.op = "sweep" =>
           /\ DOMAIN store = {k \in DOMAIN last.pre : now - last.pre[k].createdAt <= last.pre[k].ttl}
           /\ \A k \in DOMAIN store : store[k] = last.pre[k]
           /\ metrics.deletes = last.deletesBefore
                                  + Cardinality((DOMAIN last.pre) \ (DOMAIN store))
           /\ LET stats == CacheManager_getStats(store, metrics)
                  kept == {k \in DOMAIN last.pre :
                              now - last.pre[k].createdAt <= last.pre[k].ttl}
              IN  ~stats.threw => stats.ret.entriesStored = Cardinality(kept)

\* a sweep of one expired entry and one entry that is exactly ttl old
C19_Witness ==
    /\ last.op = "sweep"
    /\ Cardinality(DOMAIN last.pre) = 2
    /\ Cardinality(DOMAIN store) = 1
    /\ \E k \in DOMAIN store : now - store[k].createdAt = store[k].ttl
    /\ ~CacheManager_getStats(store, metrics).threw

\* C20: with the cleanup timer firing again and again, an entry whose age exceeds its
\* ttl does not stay in the store for ever, whether or not its key is used again.
C20_ExpiredEventuallyRemoved ==
    \A k \in Keys :
        (k \in DOMAIN store /\ now - store[k].createdAt > store[k].ttl)
            ~> ~(k \in DOMAIN store /\ now - store[k].createdAt > store[k].ttl)

\* the sweep removes one expired entry that was never read since it was set
C20_Witness ==
    /\ last.op = "sweep"
    /\ \E k \in (DOMAIN last.pre) \ (DOMAIN store) :
           /\ last.pre[k].hits = 0
           /\ now - last.pre[k].createdAt > last.pre[k].ttl
    /\ metrics.deletes = last.deletesBefore + 1

\* C27: an entry is valid through exactly ttl ms after its set: a get at set-time + ttl
\* (and at any age up to ttl) returns the value, a sweep at set-time + ttl keeps the
\* entry, and only at an age greater than ttl does get return null (absent).
C27_ValidThroughTtl ==
    /\ (last.op = "get" /\ last.key \in DOMAIN lastSet) =>
           LET s == lastSet[last.key]
           IN  /\ now - s.time = s.ttl => (last.ret = s.value /\ last.live)
               /\ now - s.time <= s.ttl => last.ret = s.value
               /\ now - s.time > s.ttl => last.ret = JsNull
    /\ last.op = "sweep" =>
           \A k \in DOMAIN last.pre :
               now - last.pre[k].createdAt = last.pre[k].ttl =>
                   (k \in DOMAIN store /\ store[k] = last.pre[k])

\* a get exactly ttl ms after the set returns the stored value and counts as a hit
C27_Witness ==
    /\ last.op = "get"
    /\ last.key \in DOMAIN lastSet
    /\ lastSet[last.key].ttl > 0
    /\ now - lastSet[last.key].time = lastSet[last.key].ttl
    /\ last.ret = "v1"
    /\ metrics.hits = 1
    /\ store[last.key].createdAt + store[last.key].ttl = now

\* C30: set(key, value, ttl) on a key that holds an entry, fresh or expired, replaces
\* the entry: afterwards it holds the new value and the new ttl, its createdAt is the
\* instant of this set, its hit count is 0, and sets has grown by exactly 1 while hits,
\* misses and deletes are unchanged.
C30_SetReplacesEntry ==
    (last.op = "set" /\ last.replaced \in {"fresh", "expired"}) =>
        /\ store[last.key].value = lastSet[last.key].value
        /\ store[last.key].ttl = lastSet[last.key].ttl
        /\ lastSet[last.key].time = now
        /\ store[last.key].createdAt = now
        /\ store[last.key].hits = 0
        /\ metrics = [last.metricsBefore EXCEPT !.sets = @ + 1]

\* a set, later than time 0, on a fresh entry that had been read once
C30_Witness ==
    /\ last.op = "set"
    /\ last.replaced = "fresh"
    /\ last.replacedHits = 1
    /\ now > 0
    /\ store[last.key].hits = 0
    /\ metrics = [hits |-> 1, misses |-> 0, sets |-> 2, deletes |-> 0]

\* C31: get on an entry whose age exceeds its ttl returns null (absent), removes the
\* entry and adds 1 to misses, leaving hits, sets and deletes unchanged; get on a valid
\* entry adds 1 to the hit count of the entry and to hits, returns the stored value and
\* leaves createdAt and ttl of the entry unchanged; no other entry is touched.
C31_GetExpiredAndValid ==
    last.op = "get" =>
        /\ metrics.sets = last.setsBefore
        /\ metrics.deletes = last.deletesBefore
        /\ ~last.othersChanged
        /\ (last.had /\ ~last.live) =>
               /\ last.ret = JsNull
               /\ last.key \notin DOMAIN store
               /\ metrics.misses = last.missesBefore + 1
               /\ metrics.hits = last.hitsBefore
        /\ last.live =>
               /\ last.key \in DOMAIN store
               /\ last.ret = store[last.key].value
               /\ store[last.key].hits = last.entryBefore.hits + 1
               /\ metrics.hits = last.hitsBefore + 1
               /\ metrics.misses = last.missesBefore
               /\ store[last.key].createdAt = last.entryBefore.createdAt
               /\ store[last.key].ttl = last.entryBefore.ttl
               /\ store[last.key].createdAt = lastSet[last.key].time
               /\ store[last.key].ttl = lastSet[last.key].ttl

\* the second read of a valid entry, later than its set
C31_Witness ==
    /\ last.op = "get"
    /\ last.live
    /\ last.entryBefore.hits = 1
    /\ store[last.key].hits = 2
    /\ now > store[last.key].createdAt
    /\ metrics.hits = 2

\* C32: after clear the store is empty and the counters hits, misses, sets and deletes
\* are what they were; a get made after it returns null (absent) as long as the key has
\* not been set again, by set or by the set of a getOrSet that completes.
C32_ClearEmptiesStore ==
    /\ last.op = "clear" =>
           /\ store = EmptyMap
           /\ metrics = last.metricsBefore
           /\ lastSet = EmptyMap
           /\ \A k \in Keys : CacheManager_get(store, metrics, k, now).ret = JsNull
    /\ (last.op = "get" /\ last.key \notin DOMAIN lastSet) =>
           (last.ret = JsNull /\ ~last.had)

\* a clear of two entries after a get: the counters keep their values
C32_Witness ==
    /\ last.op = "clear"
    /\ last.entriesRemoved = 2
    /\ metrics = [hits |-> 1, misses |-> 0, sets |-> 2, deletes |-> 0]
    /\ store = EmptyMap

\* the store s2 is the store s1 less some entries that are expired at t
SweptOf(s1, s2, t) ==
    /\ DOMAIN s2 \subseteq DOMAIN s1
    /\ \A k \in DOMAIN s2 : s2[k] = s1[k]
    /\ \A k \in (DOMAIN s1) \ (DOMAIN s2) : isExpired(s1[k], t)

\* two results of one operation, on a store and on a swept store: the same hits and
\* misses, and the second store a swept first store
SameReads(a, b, t) ==
    /\ a.metrics.hits = b.metrics.hits
    /\ a.metrics.misses = b.metrics.misses
    /\ SweptOf(a.store, b.store, t)

\* C38: sweeps inserted among the operations change no value returned by get or
\* getOrSet and neither hits nor misses.  Whatever entries the sweeps removed from
\* the store up to now, get and getOrSet return the same value and count the same on
\* the swept store as on the unswept one, and after every operation (set, get,
\* getOrSet and its store, delete, the sweep itself) and at every later instant the
\* one store is again the other less entries that are expired.
C38_SweepIsTransparent ==
    LET swept == (DOMAIN store) \ DOMAIN CacheManager_startAutoCleanup(store, metrics, now).store
    IN  \A D \in (SUBSET swept) \ {{}} :
            LET s2 == [k \in (DOMAIN store) \ D |-> store[k]]
            IN  /\ \A k \in Keys :
                       LET a == CacheManager_get(store, metrics, k, now)
                           b == CacheManager_get(s2, metrics, k, now)
                           ga == getOrSet_lookup(store, metrics, k, now)
                           gb == getOrSet_lookup(s2, metrics, k, now)
                           da == CacheManager_delete(store, metrics, k)
                           db == CacheManager_delete(s2, metrics, k)
                       IN  /\ a.ret = b.ret
                           /\ SameReads(a, b, now)
                           /\ ga.ret = gb.ret
                           /\ ga.fetch = gb.fetch
                           /\ SameReads(ga, gb, now)
                           /\ SameReads(da, db, now)
                           /\ \A v \in Values, ttl \in TTLs :
                                  SameReads(CacheManager_set(store, metrics, k, v, ttl, now),
                                            CacheManager_set(s2, metrics, k, v, ttl, now), now)
                /\ SameReads(CacheManager_startAutoCleanup(store, metrics, now),
                             CacheManager_startAutoCleanup(s2, metrics, now), now)
                /\ \A t \in now .. MaxCacheNow : SweptOf(store, s2, t)

\* a get has just missed on a key whose expired entry no sweep had removed, while
\* another expired entry is still stored
C38_Witness ==
    /\ last.op = "get"
    /\ last.had
    /\ ~last.live
    /\ last.ret = JsNull
    /\ \E k \in DOMAIN store : isExpired(store[k], now)

\* C39 (as claimed): when delete(key) has completed while a getOrSet of that key was
\* awaiting its fetch, the getOrSet, finishing as the next step, does not leave the
\* value of that fetch in the cache
C39_InvalidationNotLost ==
    [][\A p \in Procs :
          (/\ last.op = "delete"
           /\ calls[p].state = "awaiting"
           /\ calls[p].key = last.key
           /\ calls'[p].state = "idle"
           /\ last'.op = "getOrSetReturn")
          => ~(last.key \in DOMAIN store' /\ store'[last.key].value = last'.ret)]_vars

\* C24 (as claimed): getStats never throws, whatever the stored values are: in every
\* state of the cache a call of getStats returns, and what it returns holds the counters.
C24_GetStatsNeverThrows ==
    LET stats == CacheManager_getStats(store, metrics)
    IN  /\ ~stats.threw
        /\ stats.ret.hits = metrics.hits
        /\ stats.ret.misses = metrics.misses
        /\ stats.ret.sets = metrics.sets
        /\ stats.ret.deletes = metrics.deletes

-----------------------------------------------------------------------------
(* Claims about the cooldown manager, checked under SpecCooldown.          *)
(* last.pre is the state of the checked pair when the call was made.       *)

\* C6: checkCooldown on a pair whose record has now < expiresAt returns
\* allowed = false, adds exactly 1 to the violation count of that record, returns the
\* new count, and returns retryAfter = ceil((expiresAt - now) / 1000).
C6_DeniedCheck ==
    (last.op = "checkCooldown" /\ last.pre.kind = "active") =>
        LET record == cooldowns[last.user][last.cmd]
            remaining == last.pre.expiresAt - now
        IN  /\ last.ret.allowed = FALSE
            /\ record.violations = last.pre.violations + 1
            /\ last.ret.violations = record.violations
            /\ (last.ret.retryAfter - 1) * 1000 < remaining
            /\ remaining <= last.ret.retryAfter * 1000

\* a second denied check, with a remaining time that is no whole number of seconds
C6_Witness ==
    /\ last.op = "checkCooldown"
    /\ last.pre.kind = "active"
    /\ last.pre.violations = 1
    /\ (last.pre.expiresAt - now) % 1000 # 0
    /\ last.ret.violations = 2

C8_EscalationSurvivesSweep ==
    (last.op = "checkCooldown" /\ last.ret.allowed /\ last.deniedBefore >= 1) =>
        /\ cooldowns[last.user][last.cmd].expiresAt =
               now + last.base + (last.deniedBefore * 1000)
        /\ cooldowns[last.user][last.cmd].expiresAt > now + last.base

\* C9: the checkCooldown that follows resetCooldown of the same pair is allowed,
\* whatever the pair's state was before the reset, and resetCooldown for a user with
\* no map entry leaves the cooldown map as it was.
C9_ResetThenAllowed ==
    /\ (last.op = "checkCooldown" /\ last.afterReset) => last.ret.allowed = TRUE
    /\ (last.op = "resetCooldown" /\ ~last.hadUser) => ~last.changed

\* a check right after the reset of a pair that was on cooldown with violations
C9_Witness ==
    /\ last.op = "checkCooldown"
    /\ last.afterReset
    /\ last.resetFrom = "active"
    /\ last.ret.allowed

\* C33: in every state the violation count of every cooldown record is an integer >= 0
\* and equals the number of denied checks made on the pair since its last allowed check;
\* right after an allowed check of a pair the count of its record is 0.
C33_ViolationsCountDenials ==
    /\ \A u \in DOMAIN cooldowns : \A c \in DOMAIN cooldowns[u] :
           /\ cooldowns[u][c].violations \in Nat
           /\ cooldowns[u][c].violations = denied[<<u, c>>]
    /\ (last.op = "checkCooldown" /\ last.ret.allowed) =>
           cooldowns[last.user][last.cmd].violations = 0

\* an allowed check of a pair whose expired record counted one denied check
C33_Witness ==
    /\ last.op = "checkCooldown"
    /\ last.ret.allowed
    /\ last.pre.kind = "expired"
    /\ last.pre.violations = 1
    /\ cooldowns[last.user][last.cmd].violations = 0

\* C21: a cooldown sweep removes every record with now >= expiresAt and no record with
\* now < expiresAt, then every user whose command map is empty: after it no user has an
\* empty map, the kept records are unchanged, and a pair that was on active cooldown
\* before the sweep is denied by a check made after it.
C21_SweepRemovesExpiredCooldowns ==
    last.op = "cooldownSweep" =>
        LET pre == last.before
            active(u) == {c \in DOMAIN pre[u] : now < pre[u][c].expiresAt}
        IN  /\ DOMAIN cooldowns = {u \in DOMAIN pre : active(u) # {}}
            /\ \A u \in DOMAIN cooldowns :
                   /\ DOMAIN cooldowns[u] = active(u)
                   /\ DOMAIN cooldowns[u] # {}
                   /\ \A c \in active(u) :
                          /\ cooldowns[u][c] = pre[u][c]
                          /\ \A ms \in CooldownMs :
                                 CommandCooldownManager_checkCooldown(
                                     cooldowns, u, c, ms, now).ret.allowed = FALSE

\* a sweep of a user with one record expiring at this very instant and one active
\* record, and of a user whose command map a reset had left empty
C21_Witness ==
    /\ last.op = "cooldownSweep"
    /\ \E u \in DOMAIN last.before : \E c \in DOMAIN last.before[u] :
           /\ last.before[u][c].expiresAt = now
           /\ u \in DOMAIN cooldowns
           /\ c \notin DOMAIN cooldowns[u]
    /\ \E u \in DOMAIN last.before : DOMAIN last.before[u] = {}
    /\ Cardinality(DOMAIN cooldowns) = 1

\* C22: the first checkCooldown of a pair with no record returns allowed = true and
\* creates the record expiresAt = now + base with violation count 0, whatever the records
\* of the other pairs are, and it leaves the record of every other pair as it was: a
\* cooldown of user A on command X denies neither user B on X nor user A on command Y.
C22_FirstCheckTouchesOnlyItsPair ==
    (last.op = "checkCooldown" /\ last.pre.kind = "none") =>
        /\ last.ret = [allowed |-> TRUE]
        /\ cooldowns[last.user][last.cmd] =
               [expiresAt |-> now + last.base, violations |-> 0]
        /\ ~last.othersChanged

\* the first check of a pair, made while the same user is on cooldown for the other
\* command and the other user is on cooldown for the same command
C22_Witness ==
    /\ last.op = "checkCooldown"
    /\ last.pre.kind = "none"
    /\ last.ret.allowed
    /\ \E u \in Users \ {last.user}, c \in Cmds \ {last.cmd} :
           /\ PairState(cooldowns, u, last.cmd, now).kind = "active"
           /\ PairState(cooldowns, last.user, c, now).kind = "active"

-----------------------------------------------------------------------------
(* Claims about the spam detector, checked under SpecSpam.  spamLog[u]     *)
(* holds the results of the checks user u made, starting from no history,  *)
(* less than timeWindow after the first of them.                           *)

\* C10 (as claimed): of five checkSpam calls of one user inside one window, starting
\* from no history, the first four return isSpamming = false and the fifth true.
C10_FifthCheckFlagged ==
    \A u \in DOMAIN spamLog :
        Len(spamLog[u].results) >= messageThreshold =>
            /\ \A i \in 1..(messageThreshold - 1) : spamLog[u].results[i] = FALSE
            /\ spamLog[u].results[messageThreshold] = TRUE

\* C10 (amended): of the checkSpam calls of one user inside one window, starting from
\* no history, the first five return isSpamming = false and the sixth returns true.
C10_SixthCheckFlagged ==
    \A u \in DOMAIN spamLog :
        /\ \A i \in 1..messageThreshold :
               i <= Len(spamLog[u].results) => spamLog[u].results[i] = FALSE
        /\ Len(spamLog[u].results) >= messageThreshold + 1 =>
               spamLog[u].results[messageThreshold + 1] = TRUE

\* a sixth check inside the window, made later than the first one, is flagged
C10_Witness ==
    /\ last.op = "checkSpam"
    /\ last.ret.isSpamming
    /\ last.user \in DOMAIN spamLog
    /\ Len(spamLog[last.user].results) = messageThreshold + 1
    /\ now > spamLog[last.user].start
    /\ now - spamLog[last.user].start < timeWindow


\* C11: checkSpam returns isSpamming = true, with muteDuration 30000, exactly when the
\* user's previously admitted timestamps inside the current window (less than
\* timeWindow old) number messageThreshold or more; so, from no history, the first
\* messageThreshold checks of one window are admitted and the next is the first flagged.
C11_FlaggedIffThresholdReached ==
    /\ last.op = "checkSpam" =>
           /\ last.ret.isSpamming <=> last.recent >= messageThreshold
           /\ last.ret.isSpamming => last.ret.muteDuration = 30000
    /\ \A u \in DOMAIN spamLog : \A i \in DOMAIN spamLog[u].results :
           spamLog[u].results[i] <=> i > messageThreshold

\* a check is flagged on exactly messageThreshold admitted timestamps that were
\* recorded at two different instants of the window
C11_Witness ==
    /\ last.op = "checkSpam"
    /\ last.ret.isSpamming
    /\ last.ret.muteDuration = 30000
    /\ last.recent = messageThreshold
    /\ Len(admitted[last.user]) = messageThreshold
    /\ admitted[last.user][1] < admitted[last.user][messageThreshold]

\* C12: a flagged checkSpam adds nothing to the user's history: the stored timestamps
\* are left as they were, the timestamps a later check counts are those of the admitted
\* calls only, and a user who was being flagged is admitted as soon as fewer than
\* messageThreshold admitted timestamps remain inside the window.
C12_FlaggedCallNotRecorded ==
    last.op = "checkSpam" =>
        /\ last.ret.isSpamming => ~last.changed
        /\ Recent(Stored(messageHistory, last.user), now) = Recent(admitted[last.user], now)
        /\ (last.wasFlagged /\ last.recent < messageThreshold) => ~last.ret.isSpamming

\* a flagged call that follows a flagged call of the same user, later than time 0
C12_Witness ==
    /\ last.op = "checkSpam"
    /\ last.ret.isSpamming
    /\ last.wasFlagged
    /\ ~last.changed
    /\ now > 0
    /\ Len(Stored(messageHistory, last.user)) = messageThreshold

\* C13: a checkSpam made more than timeWindow ms after the user's most recent admitted
\* check returns isSpamming = false, also when the user was being flagged before.
C13_AdmittedAfterPause ==
    (last.op = "checkSpam" /\ last.since > timeWindow) => ~last.ret.isSpamming

\* a user whose previous check was flagged is admitted after a pause longer than the window
C13_Witness ==
    /\ last.op = "checkSpam"
    /\ last.since > timeWindow
    /\ last.wasFlagged
    /\ ~last.ret.isSpamming
    /\ messageHistory[last.user] = <<now>>

\* C29: after clearUserHistory(user) the user has no tracked timestamps and the histories
\* of the other users are as they were; a user with no tracked timestamps is admitted
\* by the next checkSpam, whatever the history was before the clear.
C29_ClearResetsUser ==
    /\ last.op = "clearUserHistory" =>
           /\ last.user \notin DOMAIN messageHistory
           /\ ~last.othersChanged
           /\ AntiSpamManager_checkSpam(messageHistory, last.user, now).ret
                  = [isSpamming |-> FALSE]
    /\ \A u \in Users \ DOMAIN messageHistory :
           AntiSpamManager_checkSpam(messageHistory, u, now).ret = [isSpamming |-> FALSE]

\* the history of a user who was being flagged is cleared while the other user is
\* being flagged too
C29_Witness ==
    /\ last.op = "clearUserHistory"
    /\ last.wasFlagged
    /\ last.user \notin DOMAIN messageHistory
    /\ \E u \in lastFlag :
           /\ u # last.user
           /\ Len(Recent(Stored(messageHistory, u), now)) = messageThreshold

\* C28 (as claimed): the spam window is the closed interval [now - timeWindow, now]: an
\* admitted timestamp exactly timeWindow ms old counts towards the threshold, so a check
\* of a user with messageThreshold or more stored timestamps at most timeWindow ms old
\* returns isSpamming = true.
C28_WindowIsClosed ==
    \A u \in DOMAIN messageHistory :
        LET counted == SelectSeq(messageHistory[u], LAMBDA ts : now - ts <= timeWindow)
        IN  Len(counted) >= messageThreshold =>
                AntiSpamManager_checkSpam(messageHistory, u, now).ret.isSpamming

\* C36 (as claimed): of the admitted checkSpam calls of a user at most
\* messageThreshold lie in any span shorter than timeWindow.  So when a user has
\* messageThreshold admitted calls less than timeWindow old, the next call of that
\* user at the same instant is flagged, the history having been cleared in between
\* or not.
C36_AtMostThresholdAdmitted ==
    [][(/\ last.op = "clearUserHistory"
        /\ last.recent = messageThreshold
        /\ last'.op = "checkSpam"
        /\ last'.user = last.user
        /\ now' = now)
       => last'.ret.isSpamming]_vars

\* C36 (amended): the stored history of every user holds at most messageThreshold
\* timestamps, and of the checkSpam calls of a user admitted since the user's history
\* was last cleared at most messageThreshold lie in any span shorter than timeWindow
C36_AtMostThresholdSinceClear ==
    \A u \in Users :
        /\ Len(Stored(messageHistory, u)) <= messageThreshold
        /\ admitted[u] # << >> =>
               Len(Recent(admitted[u], admitted[u][Len(admitted[u])])) <= messageThreshold

\* messageThreshold calls of a user were admitted in a span of 2500 ms, the stored
\* history is full, and the next call has just been flagged
C36_Witness ==
    /\ last.op = "checkSpam"
    /\ last.ret.isSpamming
    /\ Len(Stored(messageHistory, last.user)) = messageThreshold
    /\ Len(admitted[last.user]) = messageThreshold
    /\ admitted[last.user][messageThreshold] - admitted[last.user][1] = 2500

-----------------------------------------------------------------------------
(* Claims about the farming guard and the crediting of points, checked     *)
(* under SpecFarming                                                        *)

\* C14: canPerformAction for a user without a record allows and records now; with a
\* record less than 30000 ms old it denies, changes nothing and reports retryAfter =
\* ceil((30000 - (now - lastAction)) / 1000) > 0; with a record 30000 ms old or older
\* it allows and overwrites the record with now.
C14_CanPerformAction ==
    last.op = "canPerformAction" =>
        LET u == last.user
            age == now - last.lastAction
            remaining == 30000 - age
        IN  /\ ~last.had => (last.ret.allowed /\ lastPointsUpdate[u] = now)
            /\ (last.had /\ age < 30000) =>
                   /\ ~last.ret.allowed
                   /\ last.ret.retryAfter > 0
                   /\ last.ret.retryAfter * 1000 >= remaining
                   /\ (last.ret.retryAfter - 1) * 1000 < remaining
                   /\ lastPointsUpdate[u] = last.lastAction
            /\ (last.had /\ age >= 30000) => (last.ret.allowed /\ lastPointsUpdate[u] = now)

\* a call 30001 ms after the recorded action is allowed and overwrites the record
C14_Witness ==
    /\ last.op = "canPerformAction"
    /\ last.had
    /\ now - last.lastAction = 30001
    /\ last.ret.allowed
    /\ lastPointsUpdate[last.user] = now

\* C15 (as claimed): a user's balance is credited only after the farming guard allowed
\* that user: whenever addPoints updates a balance, the guard holds a record for the user.
C15_CreditPassesGuard ==
    last.op = "addPointsUpdate" => last.user \in DOMAIN lastPointsUpdate

\* C35: the stored time of a user is the instant of that user's last allowed call: an
\* allowed call stores now and comes at least 30000 ms after the time stored before
\* it, a denied call leaves the stored times unchanged, and no other step touches
\* them; so any two allowed calls of a user are at least 30000 ms apart.
C35_AllowedCallsSpaced ==
    [][\A u \in Users :
          LET called == last'.op = "canPerformAction" /\ last'.user = u
              had == u \in DOMAIN lastPointsUpdate
          IN  /\ (called /\ last'.ret.allowed) =>
                     /\ u \in DOMAIN lastPointsUpdate'
                     /\ lastPointsUpdate'[u] = now
                     /\ had => now - lastPointsUpdate[u] >= 30000
              /\ (called /\ ~last'.ret.allowed) => lastPointsUpdate' = lastPointsUpdate
              /\ ~called =>
                     /\ (u \in DOMAIN lastPointsUpdate') = had
                     /\ had => lastPointsUpdate'[u] = lastPointsUpdate[u]]_vars

\* a call exactly 30000 ms after the user's last allowed one is allowed, while the
\* stored time of the other user is 15000 ms old
C35_Witness ==
    /\ last.op = "canPerformAction"
    /\ last.had
    /\ last.ret.allowed
    /\ now - last.lastAction = 30000
    /\ \E v \in Users \ {last.user} :
           v \in DOMAIN lastPointsUpdate /\ now - lastPointsUpdate[v] = 15000

-----------------------------------------------------------------------------
(* Claims about the three limiters together, checked under SpecLimiters    *)
(* and, with the timers firing for ever, under SpecLimitersLive            *)

\* C26: checkCooldown, checkSpam and canPerformAction raise no error in any reachable
\* state: every call returns a result that carries allowed (isSpamming for checkSpam),
\* and cooldown active, spam detected and interval not elapsed are the results
\* allowed = false, isSpamming = true and allowed = false.
C26_DenialsAreReturnValues ==
    /\ last.op = "checkCooldown" =>
           /\ "allowed" \in DOMAIN last.ret
           /\ last.ret.allowed \in BOOLEAN
           /\ last.pre.kind = "active" => last.ret.allowed = FALSE
    /\ last.op = "checkSpam" =>
           /\ "isSpamming" \in DOMAIN last.ret
           /\ last.ret.isSpamming \in BOOLEAN
           /\ last.recent >= messageThreshold => last.ret.isSpamming = TRUE
    /\ last.op = "canPerformAction" =>
           /\ "allowed" \in DOMAIN last.ret
           /\ last.ret.allowed \in BOOLEAN
           /\ (last.had /\ now - last.lastAction < minIntervalBetweenUpdates) =>
                  last.ret.allowed = FALSE
    /\ \A u \in Users :
           /\ \A c \in Cmds, ms \in CooldownMs :
                  "allowed" \in DOMAIN CommandCooldownManager_checkCooldown(
                                           cooldowns, u, c, ms, now).ret
           /\ "isSpamming" \in DOMAIN AntiSpamManager_checkSpam(messageHistory, u, now).ret
           /\ "allowed" \in DOMAIN LeaderboardFarmingPrevention_canPerformAction(
                                        lastPointsUpdate, u, now).ret

\* the farming guard returns a denial to a user whom the spam detector flags and whose
\* command is on cooldown with a denied attempt
C26_Witness ==
    /\ last.op = "canPerformAction"
    /\ last.ret.allowed = FALSE
    /\ last.ret.retryAfter > 0
    /\ last.user \in lastFlag
    /\ \E c \in Cmds :
           /\ denied[<<last.user, c>>] >= 1
           /\ PairState(cooldowns, last.user, c, now).kind = "active"

\* C23 (as claimed): a spam history whose timestamps are all older than the time window,
\* and a farming record older than the minimum interval, is eventually deleted, also when
\* its user makes no further check.
C23_StaleRecordsEventuallyDeleted ==
    \A u \in Users :
        /\ (/\ u \in DOMAIN messageHistory
            /\ \A i \in DOMAIN messageHistory[u] : now - messageHistory[u][i] > timeWindow)
               ~> (u \notin DOMAIN messageHistory)
        /\ (/\ u \in DOMAIN lastPointsUpdate
            /\ now - lastPointsUpdate[u] > minIntervalBetweenUpdates)
               ~> (u \notin DOMAIN lastPointsUpdate)

-----------------------------------------------------------------------------
(* Claims about the retryAfter of the cooldown manager and of the farming  *)
(* guard, checked under SpecRetry                                          *)

\* C37: a denied checkCooldown leaves expiresAt of the record as it was and reports
\* retryAfter >= 1, and the next check of the pair, made retryAfter * 1000 ms later, is
\* allowed; the next canPerformAction of a user, made retryAfter * 1000 ms after a
\* denied one, is allowed as well.
C37_RetryAfterSuffices ==
    /\ (last.op = "checkCooldown" /\ ~last.ret.allowed) =>
           /\ cooldowns[last.user][last.cmd].expiresAt = last.pre.expiresAt
           /\ last.ret.retryAfter >= 1
           /\ CommandCooldownManager_checkCooldown(
                  cooldowns, last.user, last.cmd, last.base,
                  now + last.ret.retryAfter * 1000).ret.allowed
    /\ (last.op = "canPerformAction" /\ ~last.ret.allowed) =>
           /\ last.ret.retryAfter >= 1
           /\ LeaderboardFarmingPrevention_canPerformAction(
                  lastPointsUpdate, last.user,
                  now + last.ret.retryAfter * 1000).ret.allowed

\* a check of a pair was denied 2500 ms before its cooldown ends, and at the same
\* instant a canPerformAction of the user is denied 27500 ms before the interval
\* ends and reports 28 seconds
C37_Witness ==
    /\ last.op = "canPerformAction"
    /\ ~last.ret.allowed
    /\ now - last.lastAction = 2500
    /\ last.ret.retryAfter = 28
    /\ \E c \in LimiterCmds :
           /\ denied[<<last.user, c>>] > 0
           /\ PairState(cooldowns, last.user, c, now).kind = "active"
           /\ PairState(cooldowns, last.user, c, now).expiresAt - now = 2500

-----------------------------------------------------------------------------
(* Claims about the analytics service, checked under SpecAnalytics *)

\* C34 (as claimed): a getDashboardSummary call made at most 3,600,000 ms after
\* the summary of the same days value was built returns the cached summary
\* without building it again
C34_SummaryServedForOneHour ==
    (last.op = "getDashboardSummary" /\ last.builtBefore /\ now - last.builtAt <= OneHourMs)
        => (~last.built /\ last.ret = "summary")

-----------------------------------------------------------------------------
(* Claims about the process and its sweep timers, checked under SpecProcess *)

\* C25 (as claimed): a sweep cycle of the cache or of the cooldown manager that fails
\* with an exception is contained: the process does not exit because of it, so that the
\* later sweep cycles still run.
C25_SweepFailureContained ==
    process.error \in {"Cache cleanup", "Cooldown cleanup"} => process.state # "exited"

-----------------------------------------------------------------------------
(* Claims about the slash-command handler, checked under SpecCommands *)

\* C16 (as claimed): a slash command denied by the cooldown check changes no bot status
\* counter: commandsExecuted and errors are what they were before the handler ran.
C16_DeniedChangesNoCounter ==
    (last.op = "interactionCreate" /\ ~last.allowed) => botStatus = last.statusBefore

=============================================================================
